---- MODULE Spec2Model ----
(***************************************************************************)
(* Model of experiments.py: the two generator-based context managers       *)
(* persistent_experiment and temporary_experiment, the filesystem they     *)
(* write, the process-wide logging registry they attach handlers to, and   *)
(* the pickle encoding of the args they persist.                           *)
(*                                                                         *)
(* One process runs entries one after the other.  An entry is a sequence   *)
(* of steps, one per fallible or blocking statement of the generator; the  *)
(* environment decides at each fallible step whether it raises.            *)
(***************************************************************************)
EXTENDS Integers, Sequences, FiniteSets, TLC

VARIABLES
    pc,          \* position of the current entry inside the generator
    mode,        \* "persistent" | "temporary" | "none"
    call,        \* the arguments of the current call, defaults applied
    repo,        \* state of the checkout at ~/dev/project during the entry
    exp_folder,  \* local variable exp_folder (path), <<>> before it is bound
    fd,          \* TRUE while data/args.pkl is open for writing (the with block)
    exp,         \* the Experiment handed to the with-body, NoExp before
    err,         \* the error that ended the entry, NoErr if none
    dirs,        \* filesystem: the directories that exist
    files,       \* filesystem: path -> content of the regular files
    handlers,    \* logging registry: logger name -> sequence of handlers
    rootLevel,   \* level of the root logger
    stderr,      \* records written to the console stream
    stdout,      \* lines printed with print()
    tmpCount,    \* number of directories mkdtemp has handed out
    entries,     \* number of calls made so far in this process
    attached,    \* logger name -> number of entries that attached handlers to it
    hist         \* facts about the current entry recorded for the properties

vars == <<pc, mode, call, repo, exp_folder, fd, exp, err, dirs, files, handlers,
          rootLevel, stderr, stdout, tmpCount, entries, attached, hist>>

-----------------------------------------------------------------------------
(* Bounds *)

MaxEntries == 2

-----------------------------------------------------------------------------
(* logging levels *)

NOTSET == 0
DEBUG == 10
INFO == 20
WARNING == 30

-----------------------------------------------------------------------------
(* Python values the caller may pass as args *)

PyNone == [t |-> "None"]
PyInt(n) == [t |-> "int", v |-> n]
PyStr(s) == [t |-> "str", v |-> s]
PyFunction == [t |-> "function"]
PyDict(items) == [t |-> "dict", items |-> items]

EmptyDict == PyDict(<<>>)
OneItemDict == PyDict(<< <<PyStr("lr"), PyInt(1)>> >>)
TwoItemDict == PyDict(<< <<PyStr("lr"), PyInt(1)>>, <<PyStr("seed"), PyInt(2)>> >>)
LambdaDict == PyDict(<< <<PyStr("f"), PyFunction>> >>)

\* (None is what the temporary variant binds when args is omitted)
ArgsValues == {EmptyDict, OneItemDict, TwoItemDict, LambdaDict}

\* dict.__eq__: the same keys with the same values, whatever the insertion order
Range(s) == {s[i] : i \in 1..Len(s)}
PyEq(a, b) ==
    IF a.t = "dict" /\ b.t = "dict" THEN Range(a.items) = Range(b.items) ELSE a = b

IsMapping(v) == v.t = "dict"

-----------------------------------------------------------------------------
(* pickle, protocol 4 *)

Op(name) == [op |-> name, arg |-> PyNone]
OpArg(name, a) == [op |-> name, arg |-> a]

\* save(): the opcodes of one scalar
SaveScalar(v) ==
    CASE v.t = "None" -> <<Op("NONE")>>
      [] v.t = "int"  -> <<OpArg("BININT1", v)>>
      [] v.t = "str"  -> <<OpArg("SHORT_BINUNICODE", v), Op("MEMOIZE")>>

RECURSIVE SaveItems(_)
SaveItems(items) ==
    IF items = <<>> THEN <<>>
    ELSE SaveScalar(Head(items)[1]) \o SaveScalar(Head(items)[2]) \o SaveItems(Tail(items))

\* save_dict / _batch_setitems: one item is SETITEM, several are MARK .. SETITEMS
SaveDict(d) ==
    <<Op("EMPTY_DICT"), Op("MEMOIZE")>> \o
    (CASE Len(d.items) = 0 -> <<>>
       [] Len(d.items) = 1 -> SaveItems(d.items) \o <<Op("SETITEM")>>
       [] OTHER -> <<Op("MARK")>> \o SaveItems(d.items) \o <<Op("SETITEMS")>>)

Save(v) == IF v.t = "dict" THEN SaveDict(v) ELSE SaveScalar(v)

\* a lambda cannot be pickled: pickle.dump raises PicklingError
Picklable(v) ==
    /\ v.t # "function"
    /\ v.t = "dict" => \A i \in 1..Len(v.items) :
                          v.items[i][1].t # "function" /\ v.items[i][2].t # "function"

\* the framer wraps the payload in a FRAME once it holds more than a few opcodes
pickle_dumps(v) ==
    LET body == Save(v) \o <<Op("STOP")>>
    IN  <<OpArg("PROTO", PyInt(4))>> \o
        (IF Len(body) > 3 THEN <<OpArg("FRAME", PyInt(Len(body)))>> ELSE <<>>) \o body

Mark == [t |-> "mark"]
UnpicklingError == [t |-> "EOFError"]

\* dict.__setitem__ on the item sequence
SetItem(d, k, v) ==
    IF \E i \in 1..Len(d.items) : d.items[i][1] = k
    THEN PyDict([i \in 1..Len(d.items) |->
                    IF d.items[i][1] = k THEN <<k, v>> ELSE d.items[i]])
    ELSE PyDict(Append(d.items, <<k, v>>))

RECURSIVE SetItems(_, _)
SetItems(d, kvs) ==
    IF Len(kvs) < 2 THEN d
    ELSE SetItems(SetItem(d, kvs[1], kvs[2]), SubSeq(kvs, 3, Len(kvs)))

\* index of the topmost MARK on the stack, 0 if none
RECURSIVE TopMark(_, _)
TopMark(stack, i) ==
    IF i = 0 THEN 0 ELSE IF stack[i] = Mark THEN i ELSE TopMark(stack, i - 1)

\* the unpickler's stack machine
RECURSIVE Unpickle(_, _)
Unpickle(ops, stack) ==
    IF ops = <<>> THEN UnpicklingError
    ELSE
      LET o == Head(ops)
          rest == Tail(ops)
          n == Len(stack)
      IN CASE o.op \in {"PROTO", "FRAME", "MEMOIZE"} -> Unpickle(rest, stack)
           [] o.op = "NONE" -> Unpickle(rest, Append(stack, PyNone))
           [] o.op \in {"BININT1", "SHORT_BINUNICODE"} -> Unpickle(rest, Append(stack, o.arg))
           [] o.op = "EMPTY_DICT" -> Unpickle(rest, Append(stack, EmptyDict))
           [] o.op = "MARK" -> Unpickle(rest, Append(stack, Mark))
           [] o.op = "SETITEM" ->
                Unpickle(rest, Append(SubSeq(stack, 1, n - 3),
                                      SetItem(stack[n - 2], stack[n - 1], stack[n])))
           [] o.op = "SETITEMS" ->
                LET m == TopMark(stack, n)
                IN Unpickle(rest, Append(SubSeq(stack, 1, m - 2),
                                         SetItems(stack[m - 1], SubSeq(stack, m + 1, n))))
           [] o.op = "STOP" -> stack[n]

pickle_loads(content) == Unpickle(content, <<>>)

-----------------------------------------------------------------------------
(* Paths and the filesystem *)

dev_folder == <<"home", "dev", "project">>
experiments_folder == dev_folder \o <<"experiments">>
tmp_root == <<"tmp">>

Prefixes(p) == {SubSeq(p, 1, k) : k \in 1..Len(p)}

DataDir(folder) == folder \o <<"data">>
CodeDir(folder) == folder \o <<"code">>
ArgsFile(folder) == DataDir(folder) \o <<"args.pkl">>
LogFile(folder, name) == DataDir(folder) \o <<name \o ".log">>

Exists(p) == p \in dirs \/ p \in DOMAIN files

\* Path.mkdir without exist_ok: an existing directory raises FileExistsError
MkdirStrict(p) == [raises |-> p \in dirs, dirs |-> dirs \cup Prefixes(p)]

\* Path.mkdir(exist_ok=True, parents=True): an existing directory is accepted,
\* missing parents are created
Mkdir(p) == [raises |-> FALSE, dirs |-> dirs \cup Prefixes(p)]

\* open(path, 'wb'): creates the file or truncates it
OpenTruncate(p) == IF p \in DOMAIN files THEN [files EXCEPT ![p] = <<>>] ELSE files @@ (p :> <<>>)

\* open(path, 'a'): creates the file, keeps what it holds
OpenAppend(fl, p) == IF p \in DOMAIN fl THEN fl ELSE fl @@ (p :> <<>>)

-----------------------------------------------------------------------------
(* logging *)

\* logging.getLogger(name): the empty name is the root logger
LoggerKey(name) == IF name = "" \/ name = "root" THEN "root" ELSE name

HandlersOf(hs, key) == IF key \in DOMAIN hs THEN hs[key] ELSE <<>>

FileHandler(p) == [kind |-> "file", path |-> p, level |-> DEBUG]
StreamHandler == [kind |-> "stream", path |-> <<>>, level |-> INFO]
BasicHandler == [kind |-> "stream", path |-> <<>>, level |-> NOTSET]

LogRecord(key, lvl, msg) == [name |-> key, levelno |-> lvl, msg |-> msg]

\* Logger.callHandlers over one handler list
RECURSIVE CallHandlers(_, _, _, _)
CallHandlers(hs, rec, fl, con) ==
    IF hs = <<>> THEN [files |-> fl, stderr |-> con]
    ELSE LET h == Head(hs)
         IN IF rec.levelno < h.level THEN CallHandlers(Tail(hs), rec, fl, con)
            ELSE IF h.kind = "file"
                 THEN CallHandlers(Tail(hs), rec, [fl EXCEPT ![h.path] = Append(@, rec)], con)
                 ELSE CallHandlers(Tail(hs), rec, fl, Append(con, rec))

\* Logger.log: the named loggers have no level of their own, so the root's
\* level decides; the record goes to the logger's handlers, then to the
\* root's; with no handler at all the last-resort handler prints warnings
LoggerLog(hs, lvl, fl, con, key, lvlno, msg) ==
    LET rec == LogRecord(key, lvlno, msg)
        chain == HandlersOf(hs, key) \o (IF key = "root" THEN <<>> ELSE HandlersOf(hs, "root"))
    IN  IF lvlno < lvl THEN [files |-> fl, stderr |-> con]
        ELSE IF chain = <<>>
             THEN [files |-> fl, stderr |-> IF lvlno >= WARNING THEN Append(con, rec) ELSE con]
             ELSE CallHandlers(chain, rec, fl, con)

-----------------------------------------------------------------------------
(* The state before any call *)

NoExp == [name |-> "", path |-> <<>>]
NoErr == [type |-> "none", line |-> 0]
NoCall == [name |-> "", args |-> PyNone, nameGiven |-> FALSE, argsGiven |-> FALSE]
NoHist == [dataExisted |-> FALSE, prompted |-> FALSE, warned |-> FALSE,
           confirmed |-> FALSE, yielded |-> FALSE, exitCalled |-> FALSE,
           dirs0 |-> {}, files0 |-> <<>>, stdout0 |-> 0, stderr0 |-> 0]

Init ==
    /\ pc = "idle"
    /\ mode = "none"
    /\ call = NoCall
    /\ repo = "clean"
    /\ exp_folder = <<>>
    /\ fd = FALSE
    /\ exp = NoExp
    /\ err = NoErr
    /\ dirs = Prefixes(experiments_folder) \cup Prefixes(tmp_root)
    /\ files = <<>>
    /\ handlers = ("root" :> <<>>)
    /\ rootLevel = WARNING
    /\ stderr = <<>>
    /\ stdout = <<>>
    /\ tmpCount = 0
    /\ entries = 0
    /\ attached = <<>>
    /\ hist = NoHist

-----------------------------------------------------------------------------
(* What the caller may pass *)

Names == {"", "a"}
DefaultName == "temporary_experiment"
RepoStates == {"clean", "dirty", "invalid"}
Terminal == {"idle", "closed", "failed", "raised"}

MsgCreatedPersistent == "Created a new persistent experiment at path"
MsgCreatedTemporary == "Created a new temporary experiment at path"
MsgTemporaryWarning == "This is a temporary experiment. Results will *not* be saved to disk. Proceed?"
MsgPersistentExit == "Cleanly exited."
MsgTemporaryExit == "Cleanly exited"
MsgOverwritePrompt == "already exists, risk of overwriting existing data! Proceed anyway?"
MsgOverwriteNote == "already exists, risk of overwriting..."

Error(type, line) == [type |-> type, line |-> line]

\* the line of the statement being executed, in the function being executed
Line(persistentLine, temporaryLine) ==
    IF mode = "persistent" THEN persistentLine ELSE temporaryLine

Snapshot ==
    [NoHist EXCEPT !.dirs0 = dirs, !.files0 = files,
                   !.stdout0 = Len(stdout), !.stderr0 = Len(stderr)]

\* an exception leaves the generator: the with block around the args file
\* closes it, nothing else is undone
Raise(e) ==
    /\ pc' = "failed"
    /\ err' = e
    /\ fd' = FALSE

NewCall(m, c) ==
    /\ pc \in Terminal
    /\ entries < MaxEntries
    /\ entries' = entries + 1
    /\ mode' = m
    /\ call' = c
    /\ \E r \in RepoStates : repo' = r
    /\ exp_folder' = <<>>
    /\ fd' = FALSE
    /\ exp' = NoExp
    /\ err' = NoErr
    /\ hist' = Snapshot
    /\ UNCHANGED <<dirs, files, handlers, rootLevel, stderr, stdout, tmpCount, attached>>

\* persistent_experiment(exp_name, args): both arguments are required
CallPersistent ==
    /\ \E n \in Names, a \in ArgsValues :
          NewCall("persistent", [name |-> n, args |-> a, nameGiven |-> TRUE, argsGiven |-> TRUE])
    /\ pc' = "assert_name"

\* temporary_experiment(exp_name='temporary_experiment', args=None)
CallTemporary ==
    /\ \E nameGiven \in BOOLEAN, argsGiven \in BOOLEAN, n \in Names, a \in ArgsValues :
          /\ NewCall("temporary",
                     [name |-> IF nameGiven THEN n ELSE DefaultName,
                      args |-> IF argsGiven THEN a ELSE PyNone,
                      nameGiven |-> nameGiven, argsGiven |-> argsGiven])
    /\ pc' = "mkdtemp"

-----------------------------------------------------------------------------
(* persistent_experiment, up to the directory creation *)

\* line 28 without the assertion: every name is let through
AssertNameSkipped ==
    /\ pc = "assert_name"
    /\ pc' = "repo"
    /\ UNCHANGED <<mode, call, repo, exp_folder, fd, exp, err, dirs, files, handlers,
                   rootLevel, stderr, stdout, tmpCount, entries, attached, hist>>

\* line 28: assert len(exp_name)
AssertName ==
    /\ pc = "assert_name"
    /\ IF call.name = ""
       THEN Raise(Error("AssertionError", 28))
       ELSE pc' = "repo" /\ UNCHANGED <<err, fd>>
    /\ UNCHANGED <<mode, call, repo, exp_folder, exp, dirs, files, handlers, rootLevel,
                   stderr, stdout, tmpCount, entries, attached, hist>>

\* lines 30-36 without the assertion of line 32: a dirty checkout is let through
AssertCleanSkipped ==
    /\ pc = "repo"
    /\ IF repo = "invalid"
       THEN Raise(Error("InvalidGitRepositoryError", 31)) /\ UNCHANGED exp_folder
       ELSE /\ pc' = "data_exists"
            /\ exp_folder' = experiments_folder \o <<call.name>>
            /\ UNCHANGED <<err, fd>>
    /\ UNCHANGED <<mode, call, repo, exp, dirs, files, handlers, rootLevel,
                   stderr, stdout, tmpCount, entries, attached, hist>>

\* lines 30-36: Repo(dev_folder), assert not repo.is_dirty(), the paths
AssertClean ==
    /\ pc = "repo"
    /\ CASE repo = "invalid" ->
              Raise(Error("InvalidGitRepositoryError", 31)) /\ UNCHANGED exp_folder
         [] repo = "dirty" ->
              Raise(Error("AssertionError", 32)) /\ UNCHANGED exp_folder
         [] OTHER ->
              /\ pc' = "data_exists"
              /\ exp_folder' = experiments_folder \o <<call.name>>
              /\ UNCHANGED <<err, fd>>
    /\ UNCHANGED <<mode, call, repo, exp, dirs, files, handlers, rootLevel,
                   stderr, stdout, tmpCount, entries, attached, hist>>

\* lines 37-40: if data.exists(): print(...); input()
CheckDataPersistent ==
    /\ pc = "data_exists"
    /\ mode = "persistent"
    /\ IF Exists(DataDir(exp_folder))
       THEN /\ stdout' = Append(stdout, MsgOverwritePrompt)
            /\ hist' = [hist EXCEPT !.dataExisted = TRUE, !.prompted = TRUE]
            /\ pc' = "input"
       ELSE /\ pc' = "mkdir_data"
            /\ UNCHANGED <<stdout, hist>>
    /\ UNCHANGED <<mode, call, repo, exp_folder, fd, exp, err, dirs, files, handlers,
                   rootLevel, stderr, tmpCount, entries, attached>>

\* line 40: input() returns what the operator typed (the answer is discarded),
\* or raises EOFError when the input stream is closed
InputPersistent ==
    /\ pc = "input"
    /\ mode = "persistent"
    /\ \/ /\ pc' = "mkdir_data"
          /\ hist' = [hist EXCEPT !.confirmed = TRUE]
          /\ UNCHANGED <<err, fd>>
       \/ /\ Raise(Error("EOFError", 40))
          /\ UNCHANGED hist
    /\ UNCHANGED <<mode, call, repo, exp_folder, exp, dirs, files, handlers, rootLevel,
                   stderr, stdout, tmpCount, entries, attached>>

-----------------------------------------------------------------------------
(* temporary_experiment, up to the directory creation *)

\* line 78-81: tempfile.mkdtemp() makes a new directory, or raises OSError
Mkdtemp ==
    /\ pc = "mkdtemp"
    /\ \/ LET folder == tmp_root \o <<"tmp" \o ToString(tmpCount)>>
          IN /\ tmpCount' = tmpCount + 1
             /\ dirs' = dirs \cup {folder}
             /\ exp_folder' = folder
             /\ pc' = "data_exists"
             /\ UNCHANGED <<err, fd>>
       \/ /\ Raise(Error("OSError", 78))
          /\ UNCHANGED <<tmpCount, dirs, exp_folder>>
    /\ UNCHANGED <<mode, call, repo, exp, files, handlers, rootLevel,
                   stderr, stdout, entries, attached, hist>>

\* lines 82-83: if data.exists(): print(...), no input()
CheckDataTemporary ==
    /\ pc = "data_exists"
    /\ mode = "temporary"
    /\ IF Exists(DataDir(exp_folder))
       THEN /\ stdout' = Append(stdout, MsgOverwriteNote)
            /\ hist' = [hist EXCEPT !.dataExisted = TRUE]
       ELSE UNCHANGED <<stdout, hist>>
    /\ pc' = "mkdir_data"
    /\ UNCHANGED <<mode, call, repo, exp_folder, fd, exp, err, dirs, files, handlers,
                   rootLevel, stderr, tmpCount, entries, attached>>

-----------------------------------------------------------------------------
(* The statements the two functions share *)

\* lines 41 / 84: data.mkdir(exist_ok=True, parents=True)
MkdirData ==
    /\ pc = "mkdir_data"
    /\ \/ LET r == Mkdir(DataDir(exp_folder))
          IN IF r.raises
             THEN Raise(Error("FileExistsError", Line(41, 84))) /\ UNCHANGED dirs
             ELSE pc' = "mkdir_code" /\ dirs' = r.dirs /\ UNCHANGED <<err, fd>>
       \/ /\ Raise(Error("OSError", Line(41, 84)))
          /\ UNCHANGED dirs
    /\ UNCHANGED <<mode, call, repo, exp_folder, exp, files, handlers, rootLevel,
                   stderr, stdout, tmpCount, entries, attached, hist>>

\* lines 42-43 / 86-87: code_folder.mkdir(exist_ok=True, parents=True)
MkdirCode ==
    /\ pc = "mkdir_code"
    /\ \/ LET r == Mkdir(CodeDir(exp_folder))
          IN IF r.raises
             THEN Raise(Error("FileExistsError", Line(43, 87))) /\ UNCHANGED dirs
             ELSE pc' = "open_args" /\ dirs' = r.dirs /\ UNCHANGED <<err, fd>>
       \/ /\ Raise(Error("OSError", Line(43, 87)))
          /\ UNCHANGED dirs
    /\ UNCHANGED <<mode, call, repo, exp_folder, exp, files, handlers, rootLevel,
                   stderr, stdout, tmpCount, entries, attached, hist>>

\* lines 44 / 88: open(data / 'args.pkl', 'wb')
OpenArgs ==
    /\ pc = "open_args"
    /\ \/ /\ files' = OpenTruncate(ArgsFile(exp_folder))
          /\ fd' = TRUE
          /\ pc' = "dump_args"
          /\ UNCHANGED err
       \/ /\ Raise(Error("OSError", Line(44, 88)))
          /\ UNCHANGED files
    /\ UNCHANGED <<mode, call, repo, exp_folder, exp, dirs, handlers, rootLevel,
                   stderr, stdout, tmpCount, entries, attached, hist>>

\* a dump that never reaches the file
DumpedNothing(fl, p, v) == fl

\* what pickle.dump leaves in the file it was given
Dumped(fl, p, v) == [fl EXCEPT ![p] = pickle_dumps(v)]

\* lines 45 / 89 with a clean-up handler: a failed dump removes the file
DumpArgsCleanup ==
    /\ pc = "dump_args"
    /\ IF Picklable(call.args)
       THEN /\ files' = [files EXCEPT ![ArgsFile(exp_folder)] = pickle_dumps(call.args)]
            /\ fd' = FALSE
            /\ pc' = IF mode = "persistent" THEN "attach" ELSE "basic_config"
            /\ UNCHANGED err
       ELSE /\ Raise(Error("PicklingError", Line(45, 89)))
            /\ files' = [q \in DOMAIN files \ {ArgsFile(exp_folder)} |-> files[q]]
    /\ UNCHANGED <<mode, call, repo, exp_folder, exp, dirs, handlers, rootLevel,
                   stderr, stdout, tmpCount, entries, attached, hist>>

\* lines 45 / 89: pickle.dump(args, fd), then the with block closes the file
DumpArgs ==
    /\ pc = "dump_args"
    /\ IF Picklable(call.args)
       THEN /\ files' = Dumped(files, ArgsFile(exp_folder), call.args)
            /\ fd' = FALSE
            /\ pc' = IF mode = "persistent" THEN "attach" ELSE "basic_config"
            /\ UNCHANGED err
       ELSE /\ Raise(Error("PicklingError", Line(45, 89)))
            /\ UNCHANGED files
    /\ UNCHANGED <<mode, call, repo, exp_folder, exp, dirs, handlers, rootLevel,
                   stderr, stdout, tmpCount, entries, attached, hist>>

-----------------------------------------------------------------------------
(* Logger set-up *)

\* line 92: logging.basicConfig(encoding='utf-8', level=logging.INFO, handlers=[])
\* does nothing once the root logger has a handler; otherwise it adds the
\* handlers of the empty list (none) and sets the root level
BasicConfigLevel == IF Len(handlers["root"]) = 0 THEN INFO ELSE rootLevel

BasicConfig ==
    /\ pc = "basic_config"
    /\ rootLevel' = BasicConfigLevel
    /\ pc' = "attach"
    /\ UNCHANGED <<mode, call, repo, exp_folder, fd, exp, err, dirs, files, handlers,
                   stderr, stdout, tmpCount, entries, attached, hist>>

\* handlers deduplicated by logger name: the new pair replaces the old ones
ReplaceHandlers(hs, key, fh, ch) ==
    IF key \in DOMAIN hs THEN [hs EXCEPT ![key] = <<fh, ch>>]
    ELSE hs @@ (key :> <<fh, ch>>)

\* logger.addHandler(fh); logger.addHandler(ch): appended, never replaced
AddHandlers(hs, key, fh, ch) ==
    IF key \in DOMAIN hs THEN [hs EXCEPT ![key] = @ \o <<fh, ch>>]
    ELSE hs @@ (key :> <<fh, ch>>)

Bump(f, key) == IF key \in DOMAIN f THEN [f EXCEPT ![key] = @ + 1] ELSE f @@ (key :> 1)

\* lines 48-59 / 93-106: getLogger(exp_name), FileHandler(data/<name>.log)
\* (opens the file for appending, or raises OSError), StreamHandler(), addHandler
AttachLogger ==
    /\ pc = "attach"
    /\ \/ LET key == LoggerKey(call.name)
              path == LogFile(exp_folder, call.name)
          IN /\ files' = OpenAppend(files, path)
             /\ handlers' = AddHandlers(handlers, key, FileHandler(path), StreamHandler)
             /\ attached' = Bump(attached, key)
             /\ pc' = IF mode = "persistent" THEN "yield" ELSE "warn"
             /\ UNCHANGED <<err, fd>>
       \/ /\ Raise(Error("OSError", Line(49, 95)))
          /\ UNCHANGED <<files, handlers, attached>>
    /\ UNCHANGED <<mode, call, repo, exp_folder, exp, dirs, rootLevel,
                   stderr, stdout, tmpCount, entries, hist>>

\* lines 108-109 guarded like the persistent prompt: warn and wait only when the
\* data directory was already there
WarnTemporaryIfExisted ==
    /\ pc = "warn"
    /\ IF hist.dataExisted
       THEN LET out == LoggerLog(handlers, rootLevel, files, stderr,
                                 LoggerKey(call.name), WARNING, MsgTemporaryWarning)
            IN /\ files' = out.files
               /\ stderr' = out.stderr
               /\ hist' = [hist EXCEPT !.warned = out.stderr # stderr]
               /\ pc' = "input"
       ELSE /\ pc' = "yield"
            /\ UNCHANGED <<files, stderr, hist>>
    /\ UNCHANGED <<mode, call, repo, exp_folder, fd, exp, err, dirs, handlers, rootLevel,
                   stdout, tmpCount, entries, attached>>

\* line 108: logger.warning("This is a temporary experiment ...")
WarnTemporary ==
    /\ pc = "warn"
    /\ LET out == LoggerLog(handlers, rootLevel, files, stderr,
                            LoggerKey(call.name), WARNING, MsgTemporaryWarning)
       IN /\ files' = out.files
          /\ stderr' = out.stderr
          /\ hist' = [hist EXCEPT !.warned = out.stderr # stderr]
    /\ pc' = "input"
    /\ UNCHANGED <<mode, call, repo, exp_folder, fd, exp, err, dirs, handlers, rootLevel,
                   stdout, tmpCount, entries, attached>>

\* line 109: input()
InputTemporary ==
    /\ pc = "input"
    /\ mode = "temporary"
    /\ \/ /\ pc' = "yield"
          /\ hist' = [hist EXCEPT !.confirmed = TRUE]
          /\ UNCHANGED <<err, fd>>
       \/ /\ Raise(Error("EOFError", 109))
          /\ UNCHANGED hist
    /\ UNCHANGED <<mode, call, repo, exp_folder, exp, dirs, files, handlers, rootLevel,
                   stderr, stdout, tmpCount, entries, attached>>

-----------------------------------------------------------------------------
(* The yield and what follows it *)

Experiment(name, path) == [name |-> name, path |-> path]

\* lines 61-64 / 111-114: logger.info("Created ..."), exp = Experiment(...), yield exp
Yield ==
    /\ pc = "yield"
    /\ LET out == LoggerLog(handlers, rootLevel, files, stderr, LoggerKey(call.name), INFO,
                            IF mode = "persistent" THEN MsgCreatedPersistent
                            ELSE MsgCreatedTemporary)
       IN /\ files' = out.files
          /\ stderr' = out.stderr
    /\ exp' = Experiment(call.name, exp_folder)
    /\ hist' = [hist EXCEPT !.yielded = TRUE]
    /\ pc' = "active"
    /\ UNCHANGED <<mode, call, repo, exp_folder, fd, err, dirs, handlers, rootLevel,
                   stdout, tmpCount, entries, attached>>

\* logging.info(msg), the module-level function: it logs on the ROOT logger,
\* after an implicit basicConfig() that gives the root a console handler when
\* it has none
RootInfoHandlers ==
    IF Len(handlers["root"]) = 0 THEN [handlers EXCEPT !["root"] = <<BasicHandler>>]
    ELSE handlers

\* line 66: the with-body returned, the generator resumes after the yield:
\* logging.info("Cleanly exited.")
ExitPersistent ==
    /\ pc = "active"
    /\ mode = "persistent"
    /\ handlers' = RootInfoHandlers
    /\ LET out == LoggerLog(RootInfoHandlers, rootLevel, files, stderr,
                            "root", INFO, MsgPersistentExit)
       IN /\ files' = out.files
          /\ stderr' = out.stderr
    /\ hist' = [hist EXCEPT !.exitCalled = TRUE]
    /\ pc' = "closed"
    /\ UNCHANGED <<mode, call, repo, exp_folder, fd, exp, err, dirs, rootLevel,
                   stdout, tmpCount, entries, attached>>

\* line 117: the with-body returned: logger.info("Cleanly exited")
ExitTemporary ==
    /\ pc = "active"
    /\ mode = "temporary"
    /\ LET out == LoggerLog(handlers, rootLevel, files, stderr,
                            LoggerKey(call.name), INFO, MsgTemporaryExit)
       IN /\ files' = out.files
          /\ stderr' = out.stderr
    /\ hist' = [hist EXCEPT !.exitCalled = TRUE]
    /\ pc' = "closed"
    /\ UNCHANGED <<mode, call, repo, exp_folder, fd, exp, err, dirs, handlers, rootLevel,
                   stdout, tmpCount, entries, attached>>

\* lines 64 / 114 with a try/finally around the yield: the exit entry is logged
\* before the exception propagates
BodyRaisesFinally ==
    /\ pc = "active"
    /\ LET out == LoggerLog(handlers, rootLevel, files, stderr,
                            LoggerKey(call.name), INFO, MsgTemporaryExit)
       IN /\ files' = out.files
          /\ stderr' = out.stderr
    /\ hist' = [hist EXCEPT !.exitCalled = TRUE]
    /\ pc' = "raised"
    /\ err' = Error("BodyError", Line(64, 114))
    /\ UNCHANGED <<mode, call, repo, exp_folder, fd, exp, dirs, handlers, rootLevel,
                   stdout, tmpCount, entries, attached>>

\* lines 64 / 114: the with-body raised: contextmanager.__exit__ throws the
\* exception into the generator at the yield; no try/finally surrounds the
\* yield, so the exception propagates and the statement after it never runs
BodyRaises ==
    /\ pc = "active"
    /\ pc' = "raised"
    /\ err' = Error("BodyError", Line(64, 114))
    /\ UNCHANGED <<mode, call, repo, exp_folder, fd, exp, dirs, files, handlers, rootLevel,
                   stderr, stdout, tmpCount, entries, attached, hist>>

-----------------------------------------------------------------------------

Next ==
    \/ CallPersistent
    \/ CallTemporary
    \/ AssertName
    \/ AssertClean
    \/ CheckDataPersistent
    \/ InputPersistent
    \/ Mkdtemp
    \/ CheckDataTemporary
    \/ MkdirData
    \/ MkdirCode
    \/ OpenArgs
    \/ DumpArgs
    \/ BasicConfig
    \/ AttachLogger
    \/ WarnTemporary
    \/ InputTemporary
    \/ Yield
    \/ ExitPersistent
    \/ ExitTemporary
    \/ BodyRaises

Spec == Init /\ [][Next]_vars

-----------------------------------------------------------------------------
(* What an entry has written since it was called *)

IsLogFile(p) == p[Len(p)] # "args.pkl"

OldLen(p) == IF p \in DOMAIN hist.files0 THEN Len(hist.files0[p]) ELSE 0

\* records with this message appended to the file p during the current entry
NewInFile(p, msg) ==
    IF p \in DOMAIN files
    THEN Cardinality({i \in (OldLen(p) + 1)..Len(files[p]) : files[p][i].msg = msg})
    ELSE 0

\* records with this message written to the console during the current entry
NewOnConsole(msg) ==
    Cardinality({i \in (hist.stderr0 + 1)..Len(stderr) : stderr[i].msg = msg})

NewInAnyFile(msg) == \E p \in DOMAIN files : IsLogFile(p) /\ NewInFile(p, msg) > 0

ExitMsg == IF mode = "persistent" THEN MsgPersistentExit ELSE MsgTemporaryExit

FsUntouched ==
    /\ dirs = hist.dirs0
    /\ files = hist.files0
    /\ Len(stdout) = hist.stdout0

-----------------------------------------------------------------------------
(* C1 *)

-----------------------------------------------------------------------------
(* C2 *)

-----------------------------------------------------------------------------
(* C3 *)

\* C3, as stated: on a dirty checkout persistent_experiment fails with the
\* dirty-repository assertion, for every name and args, with the filesystem
\* untouched and no prompt shown.
C3_DirtyAlwaysDirtyError ==
    (mode = "persistent" /\ repo = "dirty") =>
        /\ pc \in {"assert_name", "repo", "failed"}
        /\ pc = "failed" => err = Error("AssertionError", 32)
        /\ FsUntouched
        /\ ~hist.prompted

\* C3, amended: on a dirty checkout persistent_experiment with a non-empty
\* name fails with the assertion of line 32, for every args, with no
\* directory, args blob or log file created or written and no prompt shown
\* (an empty name fails earlier, at line 28, and the checkout is never read).
C3_DirtyNonEmptyNameFails ==
    (mode = "persistent" /\ repo = "dirty" /\ call.name # "") =>
        /\ pc \in {"assert_name", "repo", "failed"}
        /\ pc = "failed" => err = Error("AssertionError", 32)
        /\ FsUntouched
        /\ ~hist.prompted
        /\ ~hist.yielded

\* the failure on a re-entry: the data directory is there, and still no prompt
C3_Witness ==
    /\ mode = "persistent"
    /\ repo = "dirty"
    /\ pc = "failed"
    /\ err = Error("AssertionError", 32)
    /\ DataDir(experiments_folder \o <<call.name>>) \in dirs
    /\ stdout = <<>>

-----------------------------------------------------------------------------
(* C4 *)

\* C4: whenever the handle has been yielded, <path>/data and <path>/code
\* exist and <path>/data/args.pkl decodes to the value bound to args in this
\* call, where <path> is the path of the yielded Experiment.
C4_ActiveLayout ==
    pc = "active" =>
        /\ exp.path = exp_folder
        /\ DataDir(exp.path) \in dirs
        /\ CodeDir(exp.path) \in dirs
        /\ ArgsFile(exp.path) \in DOMAIN files
        /\ PyEq(pickle_loads(files[ArgsFile(exp.path)]), call.args)

\* a several-item mapping written over the blob of an earlier entry
C4_Witness ==
    /\ pc = "active"
    /\ call.args = TwoItemDict
    /\ mode = "persistent"
    /\ hist.dataExisted
    /\ ArgsFile(exp.path) \in DOMAIN hist.files0
    /\ hist.files0[ArgsFile(exp.path)] # files[ArgsFile(exp.path)]

-----------------------------------------------------------------------------
(* C5 *)

\* C5: after a normal exit of either variant, an info-level completion entry
\* has been written to the file sink data/<name>.log and to the console sink.
C5_CompletionInBothSinks ==
    pc = "closed" =>
        /\ NewInFile(LogFile(exp.path, exp.name), ExitMsg) > 0
        /\ NewOnConsole(ExitMsg) > 0

-----------------------------------------------------------------------------
(* C6 *)

AfterDataCheck ==
    {"input", "mkdir_data", "mkdir_code", "open_args", "dump_args", "attach",
     "yield", "active", "closed", "raised"}

\* C6: a persistent entry (clean checkout, non-empty name) whose data
\* directory exists shows the prompt and waits for the operator with nothing
\* created or written; the pre-existing directories raise nothing; after the
\* answer the entry goes on to overwrite args.pkl and to yield; without a
\* pre-existing data directory no prompt is shown.
C6_ReentryPrompts ==
    mode = "persistent" =>
        /\ pc = "input" =>
              /\ hist.dataExisted /\ hist.prompted /\ ~hist.confirmed
              /\ stdout = Append(SubSeq(stdout, 1, hist.stdout0), MsgOverwritePrompt)
              /\ dirs = hist.dirs0
              /\ files = hist.files0
        /\ pc \in AfterDataCheck =>
              /\ hist.prompted = (DataDir(exp_folder) \in hist.dirs0)
              /\ hist.prompted = hist.dataExisted
              /\ Len(stdout) = hist.stdout0 + (IF hist.prompted THEN 1 ELSE 0)
        /\ (pc \in AfterDataCheck \ {"input"} /\ hist.prompted) => hist.confirmed
        /\ err.type # "FileExistsError"
        /\ pc = "active" => files[ArgsFile(exp_folder)] = pickle_dumps(call.args)

C6_Witness ==
    /\ mode = "persistent"
    /\ pc = "active"
    /\ hist.prompted
    /\ hist.confirmed
    /\ ArgsFile(exp_folder) \in DOMAIN hist.files0
    /\ hist.files0[ArgsFile(exp_folder)] = pickle_dumps(EmptyDict)
    /\ call.args = OneItemDict

-----------------------------------------------------------------------------
(* C7 *)

\* C7: every temporary entry that reaches the yield has emitted the
\* not-saved warning and then waited on the confirmation read, whatever the
\* state of the checkout and of the data directory; while the read is
\* pending the handle has not been yielded.
C7_WarnThenConfirmBeforeYield ==
    mode = "temporary" =>
        /\ pc \in {"yield", "active", "closed", "raised"} => hist.warned /\ hist.confirmed
        /\ hist.yielded => hist.warned /\ hist.confirmed
        /\ hist.confirmed => hist.warned
        /\ pc = "input" =>
              /\ hist.warned /\ ~hist.confirmed /\ ~hist.yielded /\ exp = NoExp
              /\ NewOnConsole(MsgTemporaryWarning) > 0
              /\ NewInFile(LogFile(exp_folder, call.name), MsgTemporaryWarning) > 0
        /\ err.type \notin {"AssertionError", "InvalidGitRepositoryError"}

C7_Witness ==
    /\ mode = "temporary"
    /\ pc = "active"
    /\ repo = "dirty"
    /\ hist.warned
    /\ hist.confirmed
    /\ ~hist.dataExisted

-----------------------------------------------------------------------------
(* C8 *)

\* C8: temporary_experiment() with no argument yields an Experiment named
\* 'temporary_experiment', logs to data/temporary_experiment.log and leaves an
\* args blob that decodes to an empty mapping.
C8_DefaultsAreNameAndEmptyMapping ==
    (mode = "temporary" /\ ~call.nameGiven /\ ~call.argsGiven /\ pc = "active") =>
        /\ exp.name = DefaultName
        /\ LogFile(exp.path, DefaultName) \in DOMAIN files
        /\ IsMapping(pickle_loads(files[ArgsFile(exp.path)]))
        /\ PyEq(pickle_loads(files[ArgsFile(exp.path)]), EmptyDict)

-----------------------------------------------------------------------------
(* C9 *)

\* C9: a failing set-up step records the error and changes nothing else: the
\* directories, the files, the logger handlers and the output are as they were
\* when the step started, the handle is not yielded and no completion entry is
\* logged; a failed entry goes nowhere but to the next call.
C9_FailureLeavesEverything ==
    [][ /\ (pc # "failed" /\ pc' = "failed") =>
              /\ err'.type # "none"
              /\ dirs' = dirs /\ files' = files /\ handlers' = handlers
              /\ stderr' = stderr /\ stdout' = stdout /\ rootLevel' = rootLevel
              /\ exp' = NoExp
              /\ ~hist'.yielded /\ ~hist'.exitCalled
        /\ pc = "failed" =>
              /\ pc' \in {"failed", "assert_name", "mkdtemp"}
              /\ dirs' = dirs /\ files' = files /\ handlers' = handlers
      ]_vars

\* the dump failed: the directories and the (empty) args file stay
C9_Witness ==
    /\ pc = "failed"
    /\ err.type = "PicklingError"
    /\ DataDir(exp_folder) \in dirs
    /\ CodeDir(exp_folder) \in dirs
    /\ ArgsFile(exp_folder) \in DOMAIN files
    /\ files[ArgsFile(exp_folder)] = <<>>
    /\ dirs # hist.dirs0

-----------------------------------------------------------------------------
(* C10 *)

Attached(key) == IF key \in DOMAIN attached THEN attached[key] ELSE 0

KindCount(hs, kind) == Cardinality({i \in 1..Len(hs) : hs[i].kind = kind})

\* records with this message appended to any log file during the current entry
NewInFiles(msg) ==
    Cardinality(UNION {{<<p, i>> : i \in {j \in (OldLen(p) + 1)..Len(files[p]) :
                                              files[p][j].msg = msg}} :
                       p \in {q \in DOMAIN files : IsLogFile(q)}})

ViaRoot(key, kind) ==
    IF key = "root" THEN 0 ELSE KindCount(HandlersOf(handlers, "root"), kind)

SinkCounts ==
    /\ \A key \in DOMAIN attached \ {"root"} :
          /\ KindCount(HandlersOf(handlers, key), "file") = attached[key]
          /\ KindCount(HandlersOf(handlers, key), "stream") = attached[key]
    /\ KindCount(HandlersOf(handlers, "root"), "file") = Attached("root")
    /\ KindCount(HandlersOf(handlers, "root"), "stream") \in
          {Attached("root"), Attached("root") + 1}
    /\ (mode = "temporary" /\ pc = "input") =>
          LET key == LoggerKey(call.name)
          IN /\ NewInFiles(MsgTemporaryWarning) = Attached(key) + ViaRoot(key, "file")
             /\ NewOnConsole(MsgTemporaryWarning) =
                   KindCount(HandlersOf(handlers, key), "stream") + ViaRoot(key, "stream")

ExitKeepsSinks ==
    (pc = "active" /\ pc' \in {"closed", "raised"}) =>
        /\ \A key \in DOMAIN handlers \ {"root"} :
              key \in DOMAIN handlers' /\ handlers'[key] = handlers[key]
        /\ \/ handlers'["root"] = handlers["root"]
           \/ mode = "persistent" /\ handlers'["root"] = <<BasicHandler>>

====
